---- MODULE Spec2Model ----
(***************************************************************************)
(* A model of package portfolio (portfolio.go): an Account holding two     *)
(* keyed sets of positions, "actual" and "desired", the batch replacement  *)
(* of either set (SetActual, SetDesired / setPositions), the per-position  *)
(* validation (Position.validate), the price update (SetPrice,             *)
(* SetPriceStr / setPrice) and the copying accessors (Actual, Desired /    *)
(* copyMap).                                                               *)
(*                                                                         *)
(* Every exported method takes a.mut on entry and releases it on return,   *)
(* so in the sequential specifications one action is one whole call; the   *)
(* specification with threads takes the methods a statement at a time.     *)
(***************************************************************************)
EXTENDS Integers, Sequences, FiniteSets, TLC

(***************************************************************************)
(* decimal.Decimal: an exact number, modelled as a fraction num/den with   *)
(* den > 0.  Comparison is by value (cross multiplication); Add does not   *)
(* reduce, so equal values may have different representations.             *)
(*                                                                         *)
(* Every record of this module is written with its fields in the order of  *)
(* their first appearance in the module, which is the order TLC keeps them *)
(* in: TLC's workers then never reorder the fields of a shared record.     *)
(***************************************************************************)
Dec(n, d) == [num |-> n, den |-> d]

LTE(a, b) == a.num * b.den <= b.num * a.den

LT(a, b) == a.num * b.den < b.num * a.den

GT(a, b) == a.num * b.den > b.num * a.den

EQ(a, b) == a.num * b.den = b.num * a.den

Add(a, b) == Dec(a.num * b.den + b.num * a.den, a.den * b.den)

zero == Dec(0, 1)

one == Dec(1, 1)

oneHundred == Dec(100, 1)

(***************************************************************************)
(* The constants of the package.  Stock, Fund and Cash are iota values of  *)
(* a const block whose first two entries are maxPos and CashSym, so they   *)
(* are 2, 3 and 4; the zero value of SecType is none of them.              *)
(***************************************************************************)
CashSym == "*CASH*"

Stock == 2

Fund == 3

Cash == 4

nil == "nil"

ErrBadSym == "ErrBadSym"

ErrDupSym == "ErrDupSym"

ErrSymNotFound == "ErrSymNotFound"

ErrBadPrice == "ErrBadPrice"

ErrBadSecType == "ErrBadSecType"

ErrBadNumShares == "ErrBadNumShares"

ErrBadPct == "ErrBadPct"

ErrPctOverflow == "ErrPctOverflow"

ErrPctUnderflow == "ErrPctUnderflow"

(***************************************************************************)
(* type Position                                                           *)
(***************************************************************************)
Position(sym, secType, shares, price, pct) ==
    [Sym |-> sym, SecType |-> secType, Shares |-> shares, Price |-> price, Pct |-> pct]

(***************************************************************************)
(* func (p *Position) validate(actual bool) error                          *)
(***************************************************************************)
validateNoSecType(p, isActual) ==
    IF p.Sym = "" \/ (p.SecType = Cash /\ p.Sym # CashSym) THEN ErrBadSym
    ELSE IF isActual
         THEN (IF LTE(p.Shares, zero) THEN ErrBadNumShares ELSE nil)
         ELSE (IF LTE(p.Pct, zero) \/ GT(p.Pct, oneHundred) THEN ErrBadPct ELSE nil)

validatePctGTE(p, isActual) ==
    IF p.Sym = "" \/ (p.SecType = Cash /\ p.Sym # CashSym) THEN ErrBadSym
    ELSE IF p.Sym = CashSym /\ p.SecType # Cash THEN ErrBadSecType
    ELSE IF isActual
         THEN (IF LTE(p.Shares, zero) THEN ErrBadNumShares ELSE nil)
         ELSE (IF LTE(p.Pct, zero) \/ ~LT(p.Pct, oneHundred) THEN ErrBadPct ELSE nil)

validate(p, isActual) ==
    IF p.Sym = "" \/ (p.SecType = Cash /\ p.Sym # CashSym) THEN ErrBadSym
    ELSE IF p.Sym = CashSym /\ p.SecType # Cash THEN ErrBadSecType
    ELSE IF isActual
         THEN (IF LTE(p.Shares, zero) THEN ErrBadNumShares ELSE nil)
         ELSE (IF LTE(p.Pct, zero) \/ GT(p.Pct, oneHundred) THEN ErrBadPct ELSE nil)

(***************************************************************************)
(* map[string]Position: a function from the set of its keys.  make is the  *)
(* empty map, has is the comma-ok lookup, put is m[k] = v.                 *)
(***************************************************************************)
make == [k \in {} |-> k]

has(m, k) == k \in DOMAIN m

put(m, k, v) == [x \in (DOMAIN m) \cup {k} |-> IF x = k THEN v ELSE m[x]]

(***************************************************************************)
(* func setPositions(m, p, actual) error.  The map is passed by reference  *)
(* and mutated in place, so the result is the pair of the map as the call  *)
(* leaves it and the error returned.                                       *)
(***************************************************************************)
dupSymNever(m, pos) == FALSE

dupSym(m, pos) == has(m, pos.Sym)

addPct(totalPct, pos, isActual) == IF isActual THEN totalPct ELSE Add(totalPct, pos.Pct)

pctOverflow(totalPct, isActual) == ~isActual /\ GT(totalPct, oneHundred)

pctUnderflowLTE(totalPct, isActual) == ~isActual /\ LTE(totalPct, oneHundred)

pctUnderflowNonEmpty(totalPct, isActual) ==
    ~isActual /\ LT(totalPct, oneHundred) /\ GT(totalPct, zero)

pctUnderflow(totalPct, isActual) == ~isActual /\ LT(totalPct, oneHundred)

pinCashNone(pos) == pos

pinCash(pos) == IF pos.Sym = CashSym THEN [pos EXCEPT !.Price = one] ELSE pos

RECURSIVE setPositionsFromDupFirst(_, _, _, _, _)
setPositionsFromDupFirst(m, p, i, totalPct, isActual) ==
    IF i > Len(p)
    THEN [m |-> m, err |-> IF pctUnderflow(totalPct, isActual) THEN ErrPctUnderflow ELSE nil]
    ELSE LET pos == p[i]
             verr == validate(pos, isActual)
             total == addPct(totalPct, pos, isActual)
         IN  IF dupSym(m, pos) THEN [m |-> m, err |-> ErrDupSym]
             ELSE IF verr # nil THEN [m |-> m, err |-> verr]
             ELSE IF pctOverflow(total, isActual) THEN [m |-> m, err |-> ErrPctOverflow]
             ELSE setPositionsFromDupFirst(put(m, pos.Sym, pinCash(pos)), p, i + 1, total,
                                           isActual)

RECURSIVE setPositionsFrom(_, _, _, _, _)
setPositionsFrom(m, p, i, totalPct, isActual) ==
    IF i > Len(p)
    THEN [m |-> m, err |-> IF pctUnderflow(totalPct, isActual) THEN ErrPctUnderflow ELSE nil]
    ELSE LET pos == p[i]
             verr == validate(pos, isActual)
             total == addPct(totalPct, pos, isActual)
         IN  IF verr # nil THEN [m |-> m, err |-> verr]
             ELSE IF dupSym(m, pos) THEN [m |-> m, err |-> ErrDupSym]
             ELSE IF pctOverflow(total, isActual) THEN [m |-> m, err |-> ErrPctOverflow]
             ELSE setPositionsFrom(put(m, pos.Sym, pinCash(pos)), p, i + 1, total, isActual)

setPositions(m, p, isActual) == setPositionsFrom(m, p, 1, zero, isActual)

(***************************************************************************)
(* func copyMap(m) map[string]Position.  A Go map is a reference: ref      *)
(* names the map object passed in ("actual" or "desired", the object the   *)
(* field of that name points to).  The result is the content of the        *)
(* returned map and the object it shares storage with: copyMap makes a new *)
(* map, which shares with none.                                            *)
(***************************************************************************)
copyMapAlias(m, ref) == [val |-> m, aliasOf |-> ref]

copyMap(m, ref) == [val |-> m, aliasOf |-> "none"]

(***************************************************************************)
(* func setPrice(m, sym, price) bool: the map as the call leaves it and    *)
(* the value returned.                                                     *)
(***************************************************************************)
setPriceNoStore(m, sym, price) == [m |-> m, found |-> has(m, sym)]

setPrice(m, sym, price) ==
    IF has(m, sym)
    THEN [m |-> put(m, sym, [m[sym] EXCEPT !.Price = price]), found |-> TRUE]
    ELSE [m |-> m, found |-> FALSE]

(***************************************************************************)
(* decimal.New(string), a Decimal and ok, as SetPriceStr uses it: the text *)
(* is a sequence of characters; an optional sign, then digits with at most *)
(* one decimal point, is the number it spells, anything else is not ok.    *)
(***************************************************************************)
DigitChars == <<"0", "1", "2", "3", "4", "5", "6", "7", "8", "9">>

IsDigit(c) == \E i \in 1..Len(DigitChars) : DigitChars[i] = c

DigitVal(c) == (CHOOSE i \in 1..Len(DigitChars) : DigitChars[i] = c) - 1

RECURSIVE DigitsVal(_)
DigitsVal(s) ==
    IF s = <<>> THEN 0 ELSE DigitsVal(SubSeq(s, 1, Len(s) - 1)) * Len(DigitChars) + DigitVal(s[Len(s)])

RECURSIVE Pow10(_)
Pow10(n) == IF n = 0 THEN 1 ELSE Len(DigitChars) * Pow10(n - 1)

ParseDecimal(str) ==
    LET neg == Len(str) > 0 /\ str[1] = "-"
        body == IF Len(str) > 0 /\ str[1] \in {"-", "+"} THEN Tail(str) ELSE str
        dots == {i \in 1..Len(body) : body[i] = "."}
        digits == SelectSeq(body, IsDigit)
        ok == /\ Len(digits) > 0
              /\ Cardinality(dots) <= 1
              /\ \A i \in 1..Len(body) : i \in dots \/ IsDigit(body[i])
        scale == IF dots = {} THEN 0 ELSE Len(body) - (CHOOSE i \in dots : TRUE)
    IN  IF ok
        THEN [ok |-> TRUE, dec |-> Dec((IF neg THEN -1 ELSE 1) * DigitsVal(digits), Pow10(scale))]
        ELSE [ok |-> FALSE, dec |-> zero]

(***************************************************************************)
(* The state: the two maps of the Account, the last call made on it with   *)
(* its arguments, the error that call returned, and the map a caller holds *)
(* from its last call of Actual() or Desired(); the two flags of the       *)
(* Account; and, for the specification with threads, the holder of a.mut,  *)
(* each thread's place in the method it is running, and the two maps as    *)
(* they were when a.mut was last released (or at creation).                *)
(***************************************************************************)
VARIABLES actual, desired, call, ret, snap, Margin, NonTaxable, mut, proc, stable

vars == <<actual, desired, call, ret, snap, Margin, NonTaxable, mut, proc, stable>>

\* What the methods of the sequential specifications leave alone.
rest == <<Margin, NonTaxable, mut, proc, stable>>

Call(op, batch, symbol, value, text) ==
    [op |-> op, batch |-> batch, symbol |-> symbol, value |-> value, text |-> text]

NoSnap == [val |-> make, aliasOf |-> "none", held |-> FALSE, src |-> "none"]

\* The map an accessor returned, in the caller's hands.
Held(c, src) == [val |-> c.val, aliasOf |-> c.aliasOf, held |-> TRUE, src |-> src]

\* A map object of the account was mutated in place: a map sharing its storage shows it.
inPlace(s, ref, m) == IF s.aliasOf = ref THEN [s EXCEPT !.val = m] ELSE s

\* A field of the account was pointed at a new map: the old object is no longer the account's.
detach(s, ref) == IF s.aliasOf = ref THEN [s EXCEPT !.aliasOf = "none"] ELSE s

\* The threads, and a thread that is in no method.
Threads == {"t1", "t2"}

\* A thread: its place in its method (pc), the call it is making (req), the
\* loop index and running total of setPositions (idx, tot), the error it is to
\* return (res), found of SetPrice (hit) and the map an accessor returns (out).
Proc(pc, req, idx, tot, res, hit, out) ==
    [pc |-> pc, req |-> req, idx |-> idx, tot |-> tot, res |-> res, hit |-> hit, out |-> out]

Idle == Proc("idle", Call("", <<>>, "", zero, <<>>), 0, zero, nil, FALSE, make)

\* func NewAccount(margin, nonTaxable bool) *Account
NewAccount(margin, nonTaxable) ==
    /\ actual = make
    /\ desired = make
    /\ call = Call("NewAccount", <<>>, "", zero, <<>>)
    /\ ret = nil
    /\ snap = NoSnap
    /\ Margin = margin
    /\ NonTaxable = nonTaxable
    /\ mut = "free"
    /\ proc = [t \in Threads |-> Idle]
    /\ stable = <<make, make>>

\* The account of the tests: NewAccount(false, false).
Init == NewAccount(FALSE, FALSE)

\* An account with any flags.
InitAny == \E margin, nonTaxable \in BOOLEAN : NewAccount(margin, nonTaxable)

\* func (a *Account) SetActual(p []Position) error
SetActualKeep(p) ==
    LET r == setPositions(actual, p, TRUE)
    IN  /\ actual' = r.m
        /\ ret' = r.err
        /\ call' = Call("SetActual", p, "", zero, <<>>)
        /\ snap' = inPlace(snap, "actual", r.m)
        /\ UNCHANGED <<desired, rest>>

SetActualClearsDesired(p) ==
    LET r == setPositions(make, p, TRUE)
    IN  /\ actual' = r.m
        /\ ret' = r.err
        /\ call' = Call("SetActual", p, "", zero, <<>>)
        /\ snap' = detach(detach(snap, "actual"), "desired")
        /\ desired' = make
        /\ UNCHANGED rest

SetActual(p) ==
    LET r == setPositions(make, p, TRUE)
    IN  /\ actual' = r.m
        /\ ret' = r.err
        /\ call' = Call("SetActual", p, "", zero, <<>>)
        /\ snap' = detach(snap, "actual")
        /\ UNCHANGED <<desired, rest>>

\* func (a *Account) SetDesired(p []Position) error
SetDesiredKeep(p) ==
    LET r == setPositions(desired, p, FALSE)
    IN  /\ desired' = r.m
        /\ ret' = r.err
        /\ call' = Call("SetDesired", p, "", zero, <<>>)
        /\ snap' = inPlace(snap, "desired", r.m)
        /\ UNCHANGED <<actual, rest>>

SetDesired(p) ==
    LET r == setPositions(make, p, FALSE)
    IN  /\ desired' = r.m
        /\ ret' = r.err
        /\ call' = Call("SetDesired", p, "", zero, <<>>)
        /\ snap' = detach(snap, "desired")
        /\ UNCHANGED <<actual, rest>>

\* func (a *Account) Actual() map[string]Position
Actual ==
    /\ snap' = Held(copyMap(actual, "actual"), "actual")
    /\ call' = Call("Actual", <<>>, "", zero, <<>>)
    /\ ret' = nil
    /\ UNCHANGED <<actual, desired, rest>>

\* func (a *Account) Desired() map[string]Position
Desired ==
    /\ snap' = Held(copyMap(desired, "desired"), "desired")
    /\ call' = Call("Desired", <<>>, "", zero, <<>>)
    /\ ret' = nil
    /\ UNCHANGED <<actual, desired, rest>>

\* func (a *Account) SetPrice(sym string, price *decimal.Decimal) error
badSymNoCash(sym) == sym = ""

badSym(sym) == sym = "" \/ sym = CashSym

badPriceLT(price) == LT(price, zero)

badPrice(price) == LTE(price, zero)

notFound(found, found2) == ~found /\ ~found2

doSetPrice(c, sym, price) ==
    /\ call' = c
    /\ UNCHANGED rest
    /\ IF badSym(sym) THEN ret' = ErrBadSym /\ UNCHANGED <<actual, desired, snap>>
       ELSE IF badPrice(price) THEN ret' = ErrBadPrice /\ UNCHANGED <<actual, desired, snap>>
       ELSE LET r == setPrice(actual, sym, price)
                r2 == setPrice(desired, sym, price)
            IN  /\ actual' = r.m
                /\ desired' = r2.m
                /\ snap' = inPlace(inPlace(snap, "actual", r.m), "desired", r2.m)
                /\ ret' = IF notFound(r.found, r2.found) THEN ErrSymNotFound ELSE nil

SetPrice(sym, price) == doSetPrice(Call("SetPrice", <<>>, sym, price, <<>>), sym, price)

\* func (a *Account) SetPriceStr(sym, price string) error
SetPriceStr(sym, text) ==
    LET parsed == ParseDecimal(text)
    IN  IF ~parsed.ok
        THEN /\ call' = Call("SetPriceStr", <<>>, sym, zero, text)
             /\ ret' = ErrBadPrice
             /\ UNCHANGED <<actual, desired, snap, rest>>
        ELSE doSetPrice(Call("SetPriceStr", <<>>, sym, zero, text), sym, parsed.dec)

(***************************************************************************)
(* One call of pos.validate(actual), on its own: the position and the mode *)
(* are kept as the call, the error as its result.                          *)
(***************************************************************************)
Validate(pos, isActual) ==
    /\ call' = Call(IF isActual THEN "validate actual" ELSE "validate desired",
                    <<pos>>, "", zero, <<>>)
    /\ ret' = validate(pos, isActual)
    /\ UNCHANGED <<actual, desired, snap, rest>>

(***************************************************************************)
(* The caller of Actual() or Desired() writes to the map it was returned:  *)
(* m[k] = v and delete(m, k).  A write reaches the account only through a  *)
(* map that shares storage with one of the account's.                      *)
(***************************************************************************)
CallerWrite(c, m) ==
    /\ snap.held
    /\ snap' = [snap EXCEPT !.val = m]
    /\ actual' = IF snap.aliasOf = "actual" THEN m ELSE actual
    /\ desired' = IF snap.aliasOf = "desired" THEN m ELSE desired
    /\ call' = c
    /\ ret' = nil
    /\ UNCHANGED rest

CallerPut(k, v) == CallerWrite(Call("caller put", <<v>>, k, zero, <<>>), put(snap.val, k, v))

CallerDelete(k) ==
    /\ has(snap.val, k)
    /\ CallerWrite(Call("caller delete", <<>>, k, zero, <<>>),
                   [x \in (DOMAIN snap.val) \ {k} |-> snap.val[x]])

(***************************************************************************)
(* The methods as threads run them: a statement at a time, each thread in  *)
(* at most one method.  A thread's pc names the statement it is to run     *)
(* next: "Lock", "make", "range" (the loop of setPositions), "setPrice     *)
(* actual", "setPrice desired", "copyMap", "Unlock" (the deferred call,    *)
(* with which the method returns) and "return" (a return taken before      *)
(* a.mut.Lock()).                                                          *)
(***************************************************************************)
\* What a thread's statements leave alone.
keep == <<call, ret, snap, Margin, NonTaxable>>

At(t, pc) == proc[t].pc = pc

Goto(t, r) == proc' = [proc EXCEPT ![t] = r]

\* The call of a method whose first statement is a.mut.Lock().
Enter(t, c) ==
    /\ At(t, "idle")
    /\ Goto(t, Proc("Lock", c, 0, zero, nil, FALSE, make))
    /\ UNCHANGED <<actual, desired, mut, stable, keep>>

\* A return before a.mut.Lock().
Refuse(t, c, err) ==
    /\ At(t, "idle")
    /\ Goto(t, Proc("return", c, 0, zero, err, FALSE, make))
    /\ UNCHANGED <<actual, desired, mut, stable, keep>>

CallSetActual(t, p) == Enter(t, Call("SetActual", p, "", zero, <<>>))

CallSetDesired(t, p) == Enter(t, Call("SetDesired", p, "", zero, <<>>))

CallActual(t) == Enter(t, Call("Actual", <<>>, "", zero, <<>>))

CallDesired(t) == Enter(t, Call("Desired", <<>>, "", zero, <<>>))

\* SetPrice up to a.mut.Lock().
checkSetPrice(t, c, sym, price) ==
    IF badSym(sym) THEN Refuse(t, c, ErrBadSym)
    ELSE IF badPrice(price) THEN Refuse(t, c, ErrBadPrice)
    ELSE Enter(t, c)

CallSetPrice(t, sym, price) ==
    checkSetPrice(t, Call("SetPrice", <<>>, sym, price, <<>>), sym, price)

CallSetPriceStr(t, sym, text) ==
    LET d == ParseDecimal(text)
    IN  IF ~d.ok THEN Refuse(t, Call("SetPriceStr", <<>>, sym, zero, text), ErrBadPrice)
        ELSE checkSetPrice(t, Call("SetPriceStr", <<>>, sym, d.dec, text), sym, d.dec)

\* The statement after a.mut.Lock() in each method.
entered(op) ==
    IF op \in {"SetActual", "SetDesired"} THEN "make"
    ELSE IF op \in {"SetPrice", "SetPriceStr"} THEN "setPrice actual"
    ELSE "copyMap"

\* a.mut.Lock(): the thread waits until no thread holds a.mut.
LockNoWait(t) == mut' = t

Lock(t) == mut = "free" /\ mut' = t

MutLock(t) ==
    /\ At(t, "Lock")
    /\ Lock(t)
    /\ Goto(t, [proc[t] EXCEPT !.pc = entered(proc[t].req.op)])
    /\ UNCHANGED <<actual, desired, stable, keep>>

\* defer a.mut.Unlock(): where a method goes when its body returns err.
exitNoDefer(err) == IF err = nil THEN "Unlock" ELSE "return"

exit(err) == "Unlock"

\* a.actual = make(map[string]Position, maxPos), or a.desired
MakeMap(t) ==
    /\ At(t, "make")
    /\ actual' = IF proc[t].req.op = "SetActual" THEN make ELSE actual
    /\ desired' = IF proc[t].req.op = "SetDesired" THEN make ELSE desired
    /\ Goto(t, [proc[t] EXCEPT !.pc = "range", !.idx = 1])
    /\ UNCHANGED <<mut, stable, keep>>

\* for _, pos := range p { ... }, one position; after the last, the underflow test
RangeStep(t) ==
    LET me == proc[t]
        isActual == me.req.op = "SetActual"
        m == IF isActual THEN actual ELSE desired
        p == me.req.batch
    IN  /\ At(t, "range")
        /\ UNCHANGED <<mut, stable, keep>>
        /\ IF me.idx > Len(p)
           THEN LET err == IF pctUnderflow(me.tot, isActual) THEN ErrPctUnderflow ELSE nil
                IN  /\ Goto(t, [me EXCEPT !.pc = exit(err), !.res = err])
                    /\ UNCHANGED <<actual, desired>>
           ELSE LET pos == p[me.idx]
                    verr == validate(pos, isActual)
                    total == addPct(me.tot, pos, isActual)
                    err == IF verr # nil THEN verr
                           ELSE IF dupSym(m, pos) THEN ErrDupSym
                           ELSE IF pctOverflow(total, isActual) THEN ErrPctOverflow
                           ELSE nil
                    m2 == put(m, pos.Sym, pinCash(pos))
                IN  IF err # nil
                    THEN /\ Goto(t, [me EXCEPT !.pc = exit(err), !.res = err])
                         /\ UNCHANGED <<actual, desired>>
                    ELSE /\ Goto(t, [me EXCEPT !.idx = me.idx + 1, !.tot = total])
                         /\ actual' = IF isActual THEN m2 ELSE actual
                         /\ desired' = IF isActual THEN desired ELSE m2

\* found := setPrice(a.actual, sym, price)
SetPriceInActualUnlocked(t) ==
    LET r == setPrice(actual, proc[t].req.symbol, proc[t].req.value)
    IN  /\ At(t, "setPrice actual")
        /\ actual' = r.m
        /\ Goto(t, [proc[t] EXCEPT !.pc = "setPrice desired", !.hit = r.found])
        /\ mut' = "free"
        /\ UNCHANGED <<desired, stable, keep>>

SetPriceInActual(t) ==
    LET r == setPrice(actual, proc[t].req.symbol, proc[t].req.value)
    IN  /\ At(t, "setPrice actual")
        /\ actual' = r.m
        /\ Goto(t, [proc[t] EXCEPT !.pc = "setPrice desired", !.hit = r.found])
        /\ UNCHANGED <<desired, mut, stable, keep>>

\* found2 := setPrice(a.desired, sym, price), and the result
SetPriceInDesired(t) ==
    LET r2 == setPrice(desired, proc[t].req.symbol, proc[t].req.value)
        err == IF notFound(proc[t].hit, r2.found) THEN ErrSymNotFound ELSE nil
    IN  /\ At(t, "setPrice desired")
        /\ desired' = r2.m
        /\ Goto(t, [proc[t] EXCEPT !.pc = exit(err), !.res = err])
        /\ UNCHANGED <<actual, mut, stable, keep>>

\* return copyMap(a.actual), or a.desired
CopyMapStep(t) ==
    LET ref == IF proc[t].req.op = "Actual" THEN "actual" ELSE "desired"
        m == IF ref = "actual" THEN actual ELSE desired
    IN  /\ At(t, "copyMap")
        /\ Goto(t, [proc[t] EXCEPT !.pc = exit(nil), !.out = copyMap(m, ref).val])
        /\ UNCHANGED <<actual, desired, mut, stable, keep>>

\* The deferred a.mut.Unlock(), and the return to the caller.
DeferredUnlock(t) ==
    /\ At(t, "Unlock")
    /\ mut' = "free"
    /\ stable' = <<actual, desired>>
    /\ Goto(t, Idle)
    /\ UNCHANGED <<actual, desired, keep>>

\* The return to the caller of a method that is not holding a.mut.
Return(t) ==
    /\ At(t, "return")
    /\ Goto(t, Idle)
    /\ UNCHANGED <<actual, desired, mut, stable, keep>>

(***************************************************************************)
(* The inputs.                                                             *)
(***************************************************************************)
MaxLen == 2

BatchesOf(S) == UNION { [1..n -> S] : n \in 0..MaxLen }

Symbols == {"", CashSym, "AAA", "BBB"}

Prices == {Dec(-1, 1), zero, Dec(3, 2)}

TextNotAPrice == <<"x">>

TextNegative == <<"-", "1">>

TextZero == <<"0", ".", "0">>

TextPositive == <<"1", ".", "5">>

Texts == {TextNotAPrice, TextNegative, TextZero, TextPositive}

\* Positions for the specification of all the mutating operations.
Positions ==
    { Position("AAA", Stock, Dec(100, 1), zero, Dec(40, 1)),
      Position("BBB", Fund, Dec(100, 1), zero, Dec(60, 1)),
      Position(CashSym, Cash, Dec(100, 1), Dec(5, 1), Dec(60, 1)),
      Position("", 0, zero, zero, zero) }

\* Positions for the specification of the batch replacements alone.
ActualPositions ==
    { Position("AAA", Stock, Dec(100, 1), zero, Dec(40, 1)),
      Position("BBB", Fund, Dec(1, 2), zero, Dec(101, 1)),
      Position(CashSym, Cash, Dec(100, 1), Dec(5, 1), Dec(60, 1)),
      Position("BBB", Stock, zero, zero, Dec(60, 1)),
      Position("", 0, Dec(100, 1), zero, zero),
      Position(CashSym, Stock, Dec(100, 1), zero, Dec(60, 1)) }

DesiredPositions ==
    { Position("AAA", Stock, Dec(100, 1), zero, Dec(40, 1)),
      Position("BBB", Fund, Dec(100, 1), zero, Dec(60, 1)),
      Position(CashSym, Cash, Dec(100, 1), Dec(5, 1), Dec(60, 1)),
      Position("BBB", Stock, zero, zero, Dec(121, 2)),
      Position("BBB", Stock, zero, zero, Dec(119, 2)),
      Position("AAA", Fund, Dec(-1, 1), zero, oneHundred),
      Position("AAA", Stock, Dec(100, 1), zero, Dec(101, 1)),
      Position("", 0, zero, zero, Dec(40, 1)) }

\* Positions, symbols, prices and texts for the specification with the accessors.
SnapPositions ==
    { Position("AAA", Stock, Dec(100, 1), zero, Dec(40, 1)),
      Position(CashSym, Cash, Dec(100, 1), Dec(5, 1), Dec(60, 1)) }

SnapSymbols == {"AAA", CashSym}

SnapPrices == {Dec(3, 2)}

SnapTexts == {TextPositive}

(***************************************************************************)
(* Spec: every mutating operation of an Account, in any order.             *)
(***************************************************************************)
Next ==
    \/ \E p \in BatchesOf(Positions) : SetActual(p)
    \/ \E p \in BatchesOf(Positions) : SetDesired(p)
    \/ \E sym \in Symbols, price \in Prices : SetPrice(sym, price)
    \/ \E sym \in Symbols, text \in Texts : SetPriceStr(sym, text)

Spec == Init /\ [][Next]_vars

(***************************************************************************)
(* SpecBatch: the two batch replacements, over a wider set of positions.   *)
(***************************************************************************)
NextBatch ==
    \/ \E p \in BatchesOf(ActualPositions) : SetActual(p)
    \/ \E p \in BatchesOf(DesiredPositions) : SetDesired(p)

SpecBatch == Init /\ [][NextBatch]_vars

(***************************************************************************)
(* SpecSnap: the operations with the accessors and a caller that keeps and *)
(* writes to the map an accessor returned.                                 *)
(***************************************************************************)
NextSnap ==
    \/ \E p \in BatchesOf(SnapPositions) : SetActual(p)
    \/ \E p \in BatchesOf(SnapPositions) : SetDesired(p)
    \/ \E sym \in SnapSymbols, price \in SnapPrices : SetPrice(sym, price)
    \/ \E sym \in SnapSymbols, text \in SnapTexts : SetPriceStr(sym, text)
    \/ Actual
    \/ Desired
    \/ \E v \in SnapPositions : CallerPut(v.Sym, v)
    \/ \E k \in SnapSymbols : CallerDelete(k)

SpecSnap == Init /\ [][NextSnap]_vars

(***************************************************************************)
(* SpecValidate: validate on every combination of the field values below,  *)
(* in both modes, on an account that batch replacements have filled.       *)
(***************************************************************************)
SecTypes == {0, Stock, Fund, Cash}

ShareValues == {Dec(-1, 1), zero, Dec(1, 2)}

PctValues == {Dec(-1, 1), zero, Dec(1, 2), oneHundred, Dec(101, 1)}

AnyPosition ==
    { Position(sym, secType, shares, zero, pct) :
        sym \in Symbols, secType \in SecTypes, shares \in ShareValues, pct \in PctValues }

NextValidate ==
    \/ \E pos \in AnyPosition, isActual \in BOOLEAN : Validate(pos, isActual)
    \/ \E p \in BatchesOf(SnapPositions) : SetActual(p)
    \/ \E p \in BatchesOf(SnapPositions) : SetDesired(p)

SpecValidate == Init /\ [][NextValidate]_vars

(***************************************************************************)
(* SpecConc: the threads, each calling any method whenever it is in none.  *)
(* SpecConcFair: the same, where a thread inside a method keeps running    *)
(* (the scheduler is preemptive and runs every runnable thread) and a      *)
(* thread waiting in a.mut.Lock() gets the lock if it is free again and    *)
(* again (sync.Mutex hands the lock to a waiter that has waited long).     *)
(* Calls are not forced: a thread may stay in no method forever.           *)
(***************************************************************************)
ConcSymbols == {"", "AAA"}

\* The position that threads put in the actual set.
ConcPositions == {Position("AAA", Stock, Dec(100, 1), zero, Dec(40, 1))}

\* Zero, and the price that TextPositive spells.
ConcPrices == {zero, Dec(15, 10)}

ConcTexts == {TextNotAPrice, TextPositive}

Calls(t) ==
    \/ \E p \in BatchesOf(ConcPositions) : CallSetActual(t, p)
    \/ \E p \in BatchesOf(SnapPositions) : CallSetDesired(t, p)
    \/ \E sym \in ConcSymbols, price \in ConcPrices : CallSetPrice(t, sym, price)
    \/ \E sym \in ConcSymbols, text \in ConcTexts : CallSetPriceStr(t, sym, text)
    \/ CallActual(t)
    \/ CallDesired(t)

Runs(t) ==
    \/ MakeMap(t)
    \/ RangeStep(t)
    \/ SetPriceInActual(t)
    \/ SetPriceInDesired(t)
    \/ CopyMapStep(t)
    \/ DeferredUnlock(t)
    \/ Return(t)

NextConc == \E t \in Threads : Calls(t) \/ MutLock(t) \/ Runs(t)

SpecConc == Init /\ [][NextConc]_vars

SpecConcFair ==
    SpecConc /\ \A t \in Threads : WF_vars(Runs(t)) /\ SF_vars(MutLock(t))

(***************************************************************************)
(* SpecAccount: an account created with any flags, under the batch         *)
(* replacements, the price update and the accessors.                       *)
(***************************************************************************)
NextAccount ==
    \/ \E p \in BatchesOf(Positions) : SetActual(p)
    \/ \E p \in BatchesOf(SnapPositions) : SetDesired(p)
    \/ \E sym \in SnapSymbols, price \in SnapPrices : SetPrice(sym, price)
    \/ Actual
    \/ Desired

SpecAccount == InitAny /\ [][NextAccount]_vars

(***************************************************************************)
(* Notions the properties are stated with.                                 *)
(***************************************************************************)
IsBatchCall(op) == call.op = op

Syms(p) == {p[i].Sym : i \in 1..Len(p)}

DistinctSyms(p) == \A i, j \in 1..Len(p) : p[i].Sym = p[j].Sym => i = j

AllPass(p, isActual) == \A i \in 1..Len(p) : validate(p[i], isActual) = nil

\* The positions of p whose symbol does not occur earlier in p.
FirstOccurrences(p) ==
    {i \in 1..Len(p) : \A j \in 1..(i - 1) : p[j].Sym # p[i].Sym}

RECURSIVE SumOver(_, _)
SumOver(p, I) ==
    IF I = {} THEN zero
    ELSE LET i == CHOOSE x \in I : TRUE IN Add(p[i].Pct, SumOver(p, I \ {i}))

SumPct(p) == SumOver(p, 1..Len(p))

\* The total of the Pct fields of the entries of a map.
MapPct(m) == SumOver(m, DOMAIN m)

\* What a successful batch replacement stores for a submitted position.
Stored(pos) == IF pos.Sym = CashSym THEN [pos EXCEPT !.Price = Dec(1, 1)] ELSE pos

(***************************************************************************)
(* C1.  For every batch whose positions each pass Desired-mode validation  *)
(* and have pairwise distinct symbols, SetDesired returns nil exactly when *)
(* the percentages sum to exactly 100, ErrPctOverflow when the sum exceeds *)
(* 100 and ErrPctUnderflow when it is below 100.                           *)
(***************************************************************************)
C1_SumDecidesResult ==
    (IsBatchCall("SetDesired") /\ AllPass(call.batch, FALSE) /\ DistinctSyms(call.batch)) =>
        /\ ret = nil <=> EQ(SumPct(call.batch), Dec(100, 1))
        /\ ret = ErrPctOverflow <=> GT(SumPct(call.batch), Dec(100, 1))
        /\ ret = ErrPctUnderflow <=> LT(SumPct(call.batch), Dec(100, 1))

\* A two-position batch whose fractional percentages miss 100 by a half was rejected.
C1_Witness ==
    /\ IsBatchCall("SetDesired") /\ AllPass(call.batch, FALSE) /\ DistinctSyms(call.batch)
    /\ Len(call.batch) = 2
    /\ EQ(SumPct(call.batch), Dec(201, 2))
    /\ ret = ErrPctOverflow

(***************************************************************************)
(* C2.  In every reachable state, if the desired set is non-empty then the *)
(* Pct fields of its entries sum to exactly 100.                           *)
(***************************************************************************)
C2_DesiredSumsTo100 == desired # make => EQ(MapPct(desired), Dec(100, 1))

(***************************************************************************)
(* C3.  A batch of positions that each pass validation, and whose distinct *)
(* symbols do not overflow 100 percent, fails with ErrDupSym when it holds *)
(* a symbol twice; and ErrDupSym is returned only for a batch that holds a *)
(* symbol twice, whatever the other set and the replaced set contain.      *)
(***************************************************************************)
C3_DupWithinBatchOnly ==
    /\ (IsBatchCall("SetActual") /\ AllPass(call.batch, TRUE) /\ ~DistinctSyms(call.batch))
           => ret = ErrDupSym
    /\ (/\ IsBatchCall("SetDesired") /\ AllPass(call.batch, FALSE) /\ ~DistinctSyms(call.batch)
        /\ LTE(SumOver(call.batch, FirstOccurrences(call.batch)), Dec(100, 1)))
           => ret = ErrDupSym
    /\ (call.op \in {"SetActual", "SetDesired"} /\ ret = ErrDupSym) => ~DistinctSyms(call.batch)

\* A batch was accepted although each of its symbols was in the other set, and is
\* now in both sets.
C3_Witness ==
    /\ IsBatchCall("SetActual") /\ ret = nil /\ Len(call.batch) = 2
    /\ DOMAIN actual = DOMAIN desired
    /\ EQ(MapPct(desired), Dec(100, 1))

(***************************************************************************)
(* C4.  In every reachable state an entry stored under CashSym, in either  *)
(* set, has Price exactly 1.                                               *)
(***************************************************************************)
C4_CashPriceIsOne ==
    \A m \in {actual, desired} : has(m, CashSym) => m[CashSym].Price = Dec(1, 1)

\* Cash submitted with price 5 is stored, and a price update has been made since.
C4_Witness ==
    /\ has(actual, CashSym) /\ has(desired, CashSym)
    /\ call.op = "SetPriceStr" /\ ret = nil
    /\ \E k \in DOMAIN actual : actual[k].Price = Dec(15, 10)

(***************************************************************************)
(* C9.  SetDesired with an empty input sequence is refused with            *)
(* ErrPctUnderflow and leaves the desired set empty.  (As claimed: it is   *)
(* accepted, returning no error, and leaves the desired set empty.)        *)
(***************************************************************************)
C9_EmptyDesiredUnderflows ==
    (IsBatchCall("SetDesired") /\ call.batch = <<>>) => (ret = ErrPctUnderflow /\ desired = make)

C9_EmptyDesiredAccepted ==
    (IsBatchCall("SetDesired") /\ call.batch = <<>>) => (ret = nil /\ desired = make)

\* An empty batch was refused on an account that holds actual positions.
C9_Witness ==
    /\ IsBatchCall("SetDesired") /\ call.batch = <<>> /\ ret = ErrPctUnderflow
    /\ desired = make /\ actual # make

(***************************************************************************)
(* C10.  When SetActual (SetDesired) returns nil, the actual (desired) set *)
(* holds exactly one entry per batch position, under the position's symbol *)
(* and equal to it except that a CashSym position has Price 1, and nothing *)
(* else; SetActual of an empty batch returns nil and leaves the set empty. *)
(***************************************************************************)
ReplacedBy(m, p) ==
    /\ DOMAIN m = Syms(p)
    /\ Cardinality(DOMAIN m) = Len(p)
    /\ \A i \in 1..Len(p) : m[p[i].Sym] = Stored(p[i])

C10_SuccessReplaces ==
    /\ (IsBatchCall("SetActual") /\ ret = nil) => ReplacedBy(actual, call.batch)
    /\ (IsBatchCall("SetDesired") /\ ret = nil) => ReplacedBy(desired, call.batch)
    /\ (IsBatchCall("SetActual") /\ call.batch = <<>>) => (ret = nil /\ actual = make)

\* An accepted actual batch with cash, none of whose symbols is in the desired set.
C10_Witness ==
    /\ IsBatchCall("SetActual") /\ ret = nil /\ Len(call.batch) = 2
    /\ has(actual, CashSym)
    /\ DOMAIN desired # {} /\ DOMAIN desired \cap DOMAIN actual = {}

(***************************************************************************)
(* C5.  For a non-empty, non-cash symbol and a price > 0, SetPrice sets    *)
(* the Price of the symbol's entry in each set that contains it; it        *)
(* returns nil if at least one set contains it and ErrSymNotFound only if  *)
(* neither does.  In all cases the keys of both maps, the Sym, SecType,    *)
(* Shares and Pct of every entry and the Price of every other symbol are   *)
(* unchanged.                                                              *)
(***************************************************************************)
SameButPrice(m, m2, sym) ==
    /\ DOMAIN m2 = DOMAIN m
    /\ \A k \in DOMAIN m :
          /\ m2[k].Sym = m[k].Sym
          /\ m2[k].SecType = m[k].SecType
          /\ m2[k].Shares = m[k].Shares
          /\ m2[k].Pct = m[k].Pct
          /\ k # sym => m2[k].Price = m[k].Price

C5_Step ==
    call'.op = "SetPrice" =>
        /\ SameButPrice(actual, actual', call'.symbol)
        /\ SameButPrice(desired, desired', call'.symbol)
        /\ (call'.symbol \notin {"", CashSym} /\ GT(call'.value, Dec(0, 1))) =>
              /\ has(actual, call'.symbol) => actual'[call'.symbol].Price = call'.value
              /\ has(desired, call'.symbol) => desired'[call'.symbol].Price = call'.value
              /\ ret' = nil <=> (has(actual, call'.symbol) \/ has(desired, call'.symbol))
              /\ ret' = ErrSymNotFound <=>
                     (~has(actual, call'.symbol) /\ ~has(desired, call'.symbol))

C5_SetPriceFrame == [][C5_Step]_vars

\* SetPrice priced a symbol held in both sets and left another symbol's price alone.
C5_Witness ==
    /\ call.op = "SetPrice" /\ ret = nil
    /\ has(actual, call.symbol) /\ actual[call.symbol].Price = call.value
    /\ has(desired, call.symbol) /\ desired[call.symbol].Price = call.value
    /\ \E k \in DOMAIN actual : k # CashSym /\ actual[k].Price # call.value

(***************************************************************************)
(* C6.  For a non-empty, non-cash symbol, SetPrice returns ErrBadPrice for *)
(* any price <= 0 and SetPriceStr returns ErrBadPrice for text that parses *)
(* to a value <= 0; SetPriceStr returns ErrBadPrice for text that does not *)
(* parse, whatever the symbol; and whenever SetPrice or SetPriceStr        *)
(* returns an error, both sets are as they were before the call.  (As      *)
(* claimed: ErrBadPrice for any price <= 0, whatever the symbol.)          *)
(***************************************************************************)
IsPriceCall(c) == c.op \in {"SetPrice", "SetPriceStr"}

ErrorLeavesSets ==
    (IsPriceCall(call') /\ ret' # nil) => (actual' = actual /\ desired' = desired)

C6_Step ==
    /\ (/\ call'.op = "SetPrice" /\ call'.symbol \notin {"", CashSym}
        /\ LTE(call'.value, Dec(0, 1))) => ret' = ErrBadPrice
    /\ (call'.op = "SetPriceStr" /\ call'.text = TextNotAPrice) => ret' = ErrBadPrice
    /\ (/\ call'.op = "SetPriceStr" /\ call'.symbol \notin {"", CashSym}
        /\ call'.text \in {TextNegative, TextZero}) => ret' = ErrBadPrice
    /\ ErrorLeavesSets

C6_BadPriceGivenGoodSym == [][C6_Step]_vars

C6_StepAsClaimed ==
    /\ (call'.op = "SetPrice" /\ LTE(call'.value, Dec(0, 1))) => ret' = ErrBadPrice
    /\ (/\ call'.op = "SetPriceStr"
        /\ call'.text \in {TextNotAPrice, TextNegative, TextZero}) => ret' = ErrBadPrice
    /\ ErrorLeavesSets

C6_BadPriceAlways == [][C6_StepAsClaimed]_vars

\* A text that parses to zero was refused for a symbol that both sets hold.
C6_Witness ==
    /\ call.op = "SetPriceStr" /\ call.text = TextZero /\ ret = ErrBadPrice
    /\ has(actual, call.symbol) /\ has(desired, call.symbol)

(***************************************************************************)
(* C7.  SetPrice fails with ErrBadSym whenever the symbol is empty or is   *)
(* CashSym, for every price, a non-positive one included; SetPriceStr does *)
(* so for every text that parses, and returns ErrBadPrice for a text that  *)
(* does not parse.  (As claimed: ErrBadSym from both, for every price      *)
(* argument, text that does not parse included.)                           *)
(***************************************************************************)
C7_BadSymUnlessUnparsed ==
    (IsPriceCall(call) /\ call.symbol \in {"", CashSym}) =>
        ret = IF call.op = "SetPriceStr" /\ call.text = TextNotAPrice
              THEN ErrBadPrice ELSE ErrBadSym

C7_BadSymAlways ==
    (IsPriceCall(call) /\ call.symbol \in {"", CashSym}) => ret = ErrBadSym

\* A non-positive price for CashSym was refused for the symbol, with cash held.
C7_Witness ==
    /\ call.op = "SetPrice" /\ call.symbol = CashSym /\ LTE(call.value, Dec(0, 1))
    /\ ret = ErrBadSym
    /\ has(actual, CashSym)

(***************************************************************************)
(* C8.  A map returned by Actual() or Desired() is a snapshot: no later    *)
(* SetActual, SetDesired, SetPrice or SetPriceStr changes it, a caller's   *)
(* writes to it change nothing the account stores, and an accessor returns *)
(* what the account stores.                                                *)
(***************************************************************************)
C8_Step ==
    /\ (/\ call'.op \in {"SetActual", "SetDesired", "SetPrice", "SetPriceStr"}
        /\ snap.held) => snap' = snap
    /\ call'.op \in {"caller put", "caller delete"} =>
           (actual' = actual /\ desired' = desired)
    /\ call'.op = "Actual" => (snap'.val = actual /\ actual' = actual)
    /\ call'.op = "Desired" => (snap'.val = desired /\ desired' = desired)

C8_SnapshotIndependent == [][C8_Step]_vars

\* A map returned by Actual() still shows the price an entry had before a SetPrice.
C8_Witness ==
    /\ snap.held /\ snap.src = "actual"
    /\ call.op = "SetPrice" /\ ret = nil
    /\ has(snap.val, call.symbol) /\ has(actual, call.symbol)
    /\ snap.val[call.symbol].Price # actual[call.symbol].Price

(***************************************************************************)
(* C11.  validate rejects a position with ErrBadSym if its symbol is empty *)
(* or its type is Cash while its symbol is not CashSym; otherwise with     *)
(* ErrBadSecType if its symbol is CashSym and its type is not Cash;        *)
(* otherwise, in Actual mode, with ErrBadNumShares iff Shares <= 0,        *)
(* whatever Pct is, and in Desired mode with ErrBadPct iff Pct <= 0 or     *)
(* Pct > 100, whatever Shares is; otherwise it accepts.  It changes        *)
(* nothing of the account.                                                 *)
(***************************************************************************)
SymRejected(pos) == pos.Sym = "" \/ (pos.SecType = Cash /\ pos.Sym # CashSym)

TypeRejected(pos) == ~SymRejected(pos) /\ pos.Sym = CashSym /\ pos.SecType # Cash

Identified(pos) == ~SymRejected(pos) /\ ~TypeRejected(pos)

C11_Step ==
    call'.op \in {"validate actual", "validate desired"} =>
        LET pos == call'.batch[1]
            inActual == call'.op = "validate actual"
            sharesBad == inActual /\ Identified(pos) /\ pos.Shares.num <= 0
            pctBad == /\ ~inActual /\ Identified(pos)
                      /\ (pos.Pct.num <= 0 \/ pos.Pct.num > 100 * pos.Pct.den)
        IN  /\ ret' = ErrBadSym <=> SymRejected(pos)
            /\ ret' = ErrBadSecType <=> TypeRejected(pos)
            /\ ret' = ErrBadNumShares <=> sharesBad
            /\ ret' = ErrBadPct <=> pctBad
            /\ ret' = nil <=> (Identified(pos) /\ ~sharesBad /\ ~pctBad)
            /\ actual' = actual /\ desired' = desired

C11_ValidateDecides == [][C11_Step]_vars

\* A position of 100 percent and no shares was accepted in Desired mode, on an
\* account that holds positions.
C11_Witness ==
    /\ call.op = "validate desired" /\ ret = nil
    /\ call.batch[1].Pct = Dec(100, 1) /\ call.batch[1].Shares.num <= 0
    /\ actual # make /\ desired # make

(***************************************************************************)
(* C12.  When SetActual or SetDesired returns an error, the target set     *)
(* afterwards is exactly the positions of the batch that precede the       *)
(* failing entry, which is not inserted itself; for ErrPctUnderflow all    *)
(* the batch's positions remain.  Nothing of the set's earlier contents is *)
(* left in any failing case.                                               *)
(***************************************************************************)
DupAt(p, i) == \E j \in 1..(i - 1) : p[j].Sym = p[i].Sym

\* Position i fails a check, given that the positions before it were all inserted.
FailsAt(p, i, isActual) ==
    \/ validate(p[i], isActual) # nil
    \/ DupAt(p, i)
    \/ ~isActual /\ GT(SumOver(p, 1..i), Dec(100, 1))

\* The first position that fails a check; Len(p) + 1 if none does.
FirstFail(p, isActual) ==
    IF \E i \in 1..Len(p) : FailsAt(p, i, isActual)
    THEN CHOOSE i \in 1..Len(p) :
            FailsAt(p, i, isActual) /\ \A j \in 1..(i - 1) : ~FailsAt(p, j, isActual)
    ELSE Len(p) + 1

\* The map holding the first n positions of p, as stored.
IsPrefixOf(m, p, n) ==
    /\ DOMAIN m = {p[j].Sym : j \in 1..n}
    /\ \A j \in 1..n : m[p[j].Sym] = Stored(p[j])

C12_FailureKeepsPrefix ==
    /\ (IsBatchCall("SetActual") /\ ret # nil) =>
           IsPrefixOf(actual, call.batch, FirstFail(call.batch, TRUE) - 1)
    /\ (IsBatchCall("SetDesired") /\ ret # nil) =>
           IsPrefixOf(desired, call.batch, FirstFail(call.batch, FALSE) - 1)
    /\ (IsBatchCall("SetDesired") /\ ret = ErrPctUnderflow) =>
           IsPrefixOf(desired, call.batch, Len(call.batch))

\* The second position pushed the total over 100: the desired set is the first alone.
C12_Witness ==
    /\ IsBatchCall("SetDesired") /\ ret = ErrPctOverflow /\ Len(call.batch) = 2
    /\ DOMAIN desired = {call.batch[1].Sym}
    /\ call.batch[2].Sym # call.batch[1].Sym
    /\ actual # make

(***************************************************************************)
(* C15.  In every reachable state, after failed batch replacements too,    *)
(* every stored entry is stored under its own Sym, its Sym is non-empty,   *)
(* and its Sym is CashSym exactly when its SecType is Cash; every entry of *)
(* the actual set has Shares > 0; every entry of the desired set has       *)
(* 0 < Pct <= 100, and the desired set's total Pct does not exceed 100.    *)
(***************************************************************************)
WellKeyed(m) ==
    \A k \in DOMAIN m :
        /\ m[k].Sym = k
        /\ k # ""
        /\ (k = CashSym) <=> (m[k].SecType = Cash)

C15_EntriesWellFormed ==
    /\ WellKeyed(actual)
    /\ WellKeyed(desired)
    /\ \A k \in DOMAIN actual : actual[k].Shares.num > 0
    /\ \A k \in DOMAIN desired :
          desired[k].Pct.num > 0 /\ desired[k].Pct.num <= 100 * desired[k].Pct.den
    /\ LTE(MapPct(desired), Dec(100, 1))

\* Both sets hold what a failed replacement left: the last call failed on its
\* second position, and the desired set's total is below 100.
C15_Witness ==
    /\ IsBatchCall("SetActual") /\ ret = ErrBadSecType /\ Len(call.batch) = 2
    /\ Cardinality(DOMAIN actual) = 1
    /\ desired # make /\ LT(MapPct(desired), Dec(100, 1))

(***************************************************************************)
(* C16.  Batch processing is in input order and fail-fast: the error        *)
(* returned by SetActual/SetDesired is the one raised by the first position *)
(* in input order that fails a check; for that position the validation      *)
(* error comes first, then ErrDupSym, then (Desired only) ErrPctOverflow on  *)
(* the running total; no position after it is inserted; and                  *)
(* ErrPctUnderflow is returned only when no position failed.                 *)
(***************************************************************************)
ErrorAt(p, i, isActual) ==
    IF validate(p[i], isActual) # nil THEN validate(p[i], isActual)
    ELSE IF DupAt(p, i) THEN ErrDupSym
    ELSE ErrPctOverflow

FailFast(m, p, isActual) ==
    LET f == FirstFail(p, isActual)
    IN  /\ f <= Len(p) => ret = ErrorAt(p, f, isActual)
        /\ f > Len(p) => ret \in {nil, ErrPctUnderflow}
        /\ ret = ErrPctUnderflow => ~isActual /\ f > Len(p)
        /\ \A j \in f..Len(p) :
              DupAt(p, j) \/ ~has(m, p[j].Sym)

C16_FirstFailureDecides ==
    /\ IsBatchCall("SetActual") => FailFast(actual, call.batch, TRUE)
    /\ IsBatchCall("SetDesired") => FailFast(desired, call.batch, FALSE)

\* The failing position both repeats a symbol and is invalid: the validation
\* error is the one returned.
C16_Witness ==
    /\ IsBatchCall("SetDesired") /\ Len(call.batch) = 2
    /\ FirstFail(call.batch, FALSE) = 2
    /\ DupAt(call.batch, 2) /\ validate(call.batch[2], FALSE) # nil
    /\ ret = validate(call.batch[2], FALSE)

\* The first position fails and the second would have been accepted alone.
C16_WitnessSkipped ==
    /\ IsBatchCall("SetActual") /\ Len(call.batch) = 2
    /\ FirstFail(call.batch, TRUE) = 1
    /\ validate(call.batch[2], TRUE) = nil /\ ~DupAt(call.batch, 2)
    /\ actual = make /\ ret # nil

(***************************************************************************)
(* C17.  The two sets and the flags are independent of each other's        *)
(* operations: a new Account starts with both sets empty; SetActual,       *)
(* successful or failed, leaves the desired set as it was; SetDesired,     *)
(* successful or failed, leaves the actual set as it was; Actual() and     *)
(* Desired() leave both sets as they were; and no operation changes Margin *)
(* or NonTaxable.                                                          *)
(***************************************************************************)
C17_Step ==
    /\ call'.op = "SetActual" => desired' = desired
    /\ call'.op = "SetDesired" => actual' = actual
    /\ call'.op \in {"Actual", "Desired"} => actual' = actual /\ desired' = desired
    /\ Margin' = Margin
    /\ NonTaxable' = NonTaxable

C17_SetsAndFlagsIndependent ==
    /\ call.op = "NewAccount" => actual = make /\ desired = make
    /\ [][C17_Step]_vars

\* A failed SetActual on an account with flags set and a filled desired set.
C17_Witness ==
    /\ IsBatchCall("SetActual") /\ ret # nil /\ actual # make
    /\ desired # make
    /\ Margin /\ ~NonTaxable

(***************************************************************************)
(* The threads: helpers of the claims about them.                          *)
(***************************************************************************)
\* Thread t is between a.mut.Lock() and the deferred a.mut.Unlock().
InLocked(t) ==
    proc[t].pc \in {"make", "range", "setPrice actual", "setPrice desired", "copyMap", "Unlock"}

\* What the call c, run alone on the maps st, leaves and returns:
\* <<actual, desired, error, returned map>>.
Alone(c, st) ==
    IF c.op = "SetActual"
    THEN LET r == setPositions(make, c.batch, TRUE) IN <<r.m, st[2], r.err, make>>
    ELSE IF c.op = "SetDesired"
    THEN LET r == setPositions(make, c.batch, FALSE) IN <<st[1], r.m, r.err, make>>
    ELSE IF c.op \in {"SetPrice", "SetPriceStr"}
    THEN LET r == setPrice(st[1], c.symbol, c.value)
             r2 == setPrice(st[2], c.symbol, c.value)
         IN  <<r.m, r2.m, IF ~r.found /\ ~r2.found THEN ErrSymNotFound ELSE nil, make>>
    ELSE IF c.op = "Actual" THEN <<st[1], st[2], nil, st[1]>>
    ELSE <<st[1], st[2], nil, st[2]>>

(***************************************************************************)
(* C13.  With threads concurrently calling SetActual, SetDesired,          *)
(* SetPrice, SetPriceStr, Actual and Desired on one Account, the map that  *)
(* Actual() or Desired() returns is the content that set had when a.mut    *)
(* was last released, that is at the end of the last completed operation,  *)
(* or at creation: never the content in the middle of a batch rebuild or   *)
(* of a SetPrice.                                                          *)
(***************************************************************************)
C13_AccessorSeesCompleted ==
    \A t \in Threads :
        At(t, "Unlock") =>
            /\ proc[t].req.op = "Actual" => proc[t].out = stable[1]
            /\ proc[t].req.op = "Desired" => proc[t].out = stable[2]

\* Actual() is returning what a failed SetActual left, a single entry of a batch
\* of two, while the other thread waits to rebuild the set.
C13_Witness ==
    \E t, u \in Threads :
        /\ At(t, "Unlock") /\ proc[t].req.op = "Actual"
        /\ Cardinality(DOMAIN proc[t].out) = 1
        /\ At(u, "Lock") /\ proc[u].req.op = "SetActual" /\ Len(proc[u].req.batch) = 2

(***************************************************************************)
(* C14.  Operations on one Account are mutually exclusive and              *)
(* linearizable: at most one thread is between a.mut.Lock() and the        *)
(* deferred Unlock, and it holds a.mut; when a method is about to release  *)
(* a.mut, the two sets and what it returns are what its call, run alone,   *)
(* makes of the sets as they were when a.mut was last released (so the     *)
(* calls take effect one at a time, in the order they took the lock, and   *)
(* the two updates of SetPrice are not split); while a.mut is free the     *)
(* sets are as the last method left them; and a call refused before the    *)
(* lock returns an error its arguments alone decide.                       *)
(***************************************************************************)
C14_Linearizable ==
    /\ \A t, u \in Threads : InLocked(t) /\ InLocked(u) => t = u
    /\ \A t \in Threads : InLocked(t) => mut = t
    /\ mut = "free" => <<actual, desired>> = stable
    /\ \A t \in Threads :
          At(t, "Unlock") =>
              <<actual, desired, proc[t].res, proc[t].out>> = Alone(proc[t].req, stable)
    /\ \A t \in Threads :
          At(t, "return") =>
              /\ proc[t].res \in {ErrBadSym, ErrBadPrice}
              /\ proc[t].res = ErrBadSym =>
                    proc[t].req.symbol \in {"", CashSym} /\ proc[t].req.text # TextNotAPrice

\* SetPrice has updated an entry in both sets while the other thread waits for a.mut.
C14_Witness ==
    \E t, u \in Threads :
        /\ At(t, "Unlock") /\ proc[t].req.op = "SetPrice" /\ proc[t].res = nil
        /\ has(actual, "AAA") /\ has(desired, "AAA")
        /\ actual["AAA"].Price = proc[t].req.value
        /\ desired["AAA"].Price = proc[t].req.value
        /\ At(u, "Lock") /\ proc[u].req.op = "SetDesired"

(***************************************************************************)
(* C18.  Every operation releases a.mut on every path, error returns       *)
(* included: a.mut is free whenever no thread is between Lock and Unlock;  *)
(* and under fair scheduling every call of SetActual, SetDesired,          *)
(* SetPrice, SetPriceStr, Actual or Desired by either thread eventually    *)
(* returns.                                                                *)
(***************************************************************************)
C18_LockReleasedCallsReturn ==
    /\ []((\A t \in Threads : ~InLocked(t)) => mut = "free")
    /\ \A t \in Threads : (proc[t].pc # "idle") ~> (proc[t].pc = "idle")

\* A failed SetDesired is about to release a.mut, and the other thread waits for it.
C18_Witness ==
    \E t, u \in Threads :
        /\ At(t, "Unlock") /\ proc[t].req.op = "SetDesired" /\ proc[t].res = ErrDupSym
        /\ At(u, "Lock") /\ proc[u].req.op = "SetPriceStr"

====
